---- MODULE Spec2Model ----
(***************************************************************************)
(* A model of fluent-async-iterator: a pipeline of async generator stages  *)
(* over one source handle, pulled by a terminal operation.                 *)
(*                                                                         *)
(* Every stage is an async generator: it runs only while it answers a      *)
(* next() of its consumer, and it is suspended at a yield in between.      *)
(* ctl says who runs next and on what event: stage 0 is the source, stage  *)
(* Len(chain)+1 is the terminal operation (collect, drain).  A next()      *)
(* travels towards the source, a value, the end or an error travels back.  *)
(* The operations started by concurrentMap, and the promises handed to     *)
(* concurrentResolve, settle on their own, between any two steps.          *)
(***************************************************************************)
EXTENDS Integers, Sequences, FiniteSets, TLC

\* Bounds of the exploration.
MaxLen == 3        \* longest source
MaxStages == 3     \* longest chain of stages
MaxCount == 3      \* largest concurrency bound of an executor
MaxLimit == 2      \* largest count given to limit
MaxPipelines == 3  \* pipelines built one after another on one source handle
MaxPromises == 5   \* largest collection of promises handed to concurrentResolve
MaxTicks == 6      \* how many times the clock advances

VARIABLES
    srcKind,    \* "async": an async generator; "promises": a collection of promises
    srcLen,     \* the source produces 1, 2, ..., srcLen
    srcPos,     \* elements the source has produced so far
    srcCalls,   \* next() calls the source has received
    srcState,   \* "open", "done" (exhaustion reported) or "closed" (return() called)
    chain,      \* the stages chained on the source, first to last
    phase,      \* "build", "run", "finished", "failed"
    terminal,   \* the consumer running: "none", "collect", "drain", "iterable"
    ctl,        \* [at, ev, val]: who runs next, on which event
    taken,      \* the elements the terminal operation has been handed
    results,    \* what collect has accumulated
    failure,    \* the errors the terminal operation failed with
    delivered,  \* what the earlier pipelines on this handle have returned
    npipes,     \* pipelines built on this handle so far
    prev,       \* the executor of the run the current run repeats, if any
    now         \* Date.now(), in milliseconds since the pipeline was built

vars == << srcKind, srcLen, srcPos, srcCalls, srcState, chain, phase, terminal,
           ctl, taken, results, failure, delivered, npipes, prev, now >>

ExecKinds == {"concurrentMap", "concurrentResolve"}
Idle == [at |-> 0, ev |-> "idle", val |-> 0]

----------------------------------------------------------------------------
\* The functions the tests hand to the stages.

\* map(x => x * 2)
MapFunc(x) == x * 2

\* The predicates given to filter: x => x != 1 of the tests, and x => x % 2 == 0.
Pred(p, x) == IF p = 0 THEN x # 1 ELSE x % 2 = 0

\* the value an operation func(item) fulfils with
Func(x) == x * 10

----------------------------------------------------------------------------
\* Helpers of the executor.

\* FreeSlots with one slot too many.
FreeSlotsOneMore(count) == [s \in 1..(count + 1) |-> s - 1]

\* const slots = [...Array(count).keys()]
FreeSlots(count) == [s \in 1..count |-> s - 1]

\* Array(count) throws a RangeError for a negative length
ArrayFails(count) == count < 0

\* InvalidCount that lets an empty registry through.
InvalidCountNever(slots) == Len(slots) < 0

\* if (slots.length < 1) throw new Error('Invalid concurrency count')
InvalidCount(slots) == Len(slots) < 1

\* The errors a pull can fail with: the rejection of operation v is v.
ConfigError == 0
RangeError == 0 - 1

\* const pool = {}: an object keyed by slot, without any key yet
EmptyPool == [s \in {} |-> 0]

\* pool[slot] = op
PoolSet(pool, slot, op) == (slot :> op) @@ pool

Settled(st) == st.ful \cup st.rej

\* Object.values(pool): the operations stored in the pool
PoolOps(pool) == {pool[s] : s \in DOMAIN pool}

SetMin(S) == CHOOSE x \in S : \A y \in S : x <= y

\* RaceWinner of a race that ignores the promises already settled.
RaceWinnerNever(pool, settled) == 0 - 1

\* RaceWinner that takes the lowest occupied slot, settled or not.
RaceWinnerUnsettled(pool, settled) ==
    IF DOMAIN pool = {} THEN 0 - 1 ELSE SetMin(DOMAIN pool)

\* Promise.race(Object.values(pool)) at the moment it is called: the entries
\* are raced in ascending key order, so among the promises that have already
\* settled the one in the lowest slot wins; -1 when none has settled yet.
RaceWinner(pool, settled) ==
    LET done == {s \in DOMAIN pool : pool[s] \in settled}
    IN  IF done = {} THEN 0 - 1 ELSE SetMin(done)

\* The race an executor starts.  fresh lists the slots filled since the
\* generator last suspended: the promise stored there, func(item).then(...)
\* or promise.then(...), cannot have settled yet, so it loses to every older
\* entry that has settled; among the fresh entries whose operation has
\* settled the one submitted first wins.
RaceStart(pool, settled, fresh) ==
    LET isFresh == {fresh[j] : j \in 1..Len(fresh)}
        old == [s \in DOMAIN pool \ isFresh |-> pool[s]]
        w == RaceWinner(old, settled)
        fr == {j \in 1..Len(fresh) : pool[fresh[j]] \in settled}
    IN  IF w # 0 - 1 THEN w
        ELSE IF fr # {} THEN fresh[SetMin(fr)]
        ELSE 0 - 1

\* DeleteSlot that empties the pool.
DeleteSlotAll(pool, slot) == [s \in {} |-> pool[s]]

\* delete pool[completed.slot]
DeleteSlot(pool, slot) == [s \in DOMAIN pool \ {slot} |-> pool[s]]

\* The key under which pool[undefined] = op is stored.  Object.values lists
\* the integer keys in ascending order and then the string keys, so it
\* comes after every slot.
Undefined == MaxCount + 2

\* PopSlot that always hands out slot 0.
PopSlotZero(slots) == 0

\* slots.pop(): the last slot of the registry, undefined when it is empty
PopSlot(slots) == IF Len(slots) = 0 THEN Undefined ELSE slots[Len(slots)]

\* Saturated that never holds: the loop goes on submitting.
SaturatedNever(slots) == FALSE

\* Saturated that holds while one slot is still free.
SaturatedEarly(slots) == Len(slots) < 2

\* slots.length < 1 after a submission: the pool is saturated
Saturated(slots) == Len(slots) < 1

\* LimitContinues with a post-increment: while (i++ <= count).
LimitContinuesPost(i, count) == i - 1 <= count

\* while (++i <= count)
LimitContinues(i, count) == i <= count

\* BodyPullsAtCall of a stage that pulls its first element when it is built.
BodyPullsEager(kind) == IF kind \in {"concurrentMap", "map"} THEN 1 ELSE 0

\* the body of a generator function does not run when the function is called
BodyPullsAtCall(kind) == 0

NewStage(kind, arg, n) ==
    [kind |-> kind, arg |-> arg, pc |-> "new", i |-> 0, log |-> << >>,
     reqs |-> 0, ins |-> << >>, outs |-> << >>,
     buf |-> << >>, has |-> FALSE, key |-> 0, item |-> 0, calls |-> << >>,
     when |-> << >>,
     deltaStart |-> 0, due |-> 0, stamps |-> << >>, resumes |-> << >>,
     waits |-> << >>, asks |-> << >>,
     pool |-> EmptyPool,
     slots |-> << >>, fresh |-> << >>, winner |-> 0 - 1,
     pend |-> IF kind = "concurrentResolve" THEN 1..n ELSE {},
     ful |-> {}, rej |-> {}, order |-> << >>, errs |-> << >>]

----------------------------------------------------------------------------
Init ==
    /\ srcKind \in {"async", "promises"}
    /\ srcLen \in 0..MaxLen
    /\ srcPos = 0
    /\ srcCalls = 0
    /\ srcState = "open"
    /\ chain = << >>
    /\ phase = "build"
    /\ terminal = "none"
    /\ ctl = Idle
    /\ taken = << >>
    /\ results = << >>
    /\ failure = << >>
    /\ delivered = << >>
    /\ npipes = 1
    /\ prev = << >>
    /\ now = 0

Ask(k) == [at |-> k - 1, ev |-> "next", val |-> 0]
Give(k, v) == [at |-> k + 1, ev |-> "val", val |-> v]
End(k) == [at |-> k + 1, ev |-> "end", val |-> 0]
Throw(k, e) == [at |-> k + 1, ev |-> "err", val |-> e]
Wait(k) == [at |-> k, ev |-> "wait", val |-> 0]

At(k, kinds) ==
    /\ phase = "run"
    /\ k \in 1..Len(chain)
    /\ ctl.at = k
    /\ chain[k].kind \in kinds

SetStage(k, st) == chain' = [chain EXCEPT ![k] = st]

\* The arguments a stage of each kind is chained with.
StageArgs(kind) ==
    CASE kind = "limit" -> 0..MaxLimit
      [] kind \in {"filter", "split"} -> {0, 1}
      [] kind = "batch" -> 1..MaxLen
      [] kind = "group" -> {0, 1, 2}
      [] kind = "interval" -> {0, 50}
      [] kind \in ExecKinds -> (0 - 1)..MaxCount
      [] OTHER -> {0}

\* The kinds of the stages that run in pipelines of several stages, and of
\* those that run as the only stage of their pipeline.
RunKinds == {"map", "filter", "peek", "limit"}
AloneKinds == ExecKinds \cup {"batch", "group", "split", "interval"}

\* The argument of the stages that are chained behind other stages and are
\* not of the kinds in RunKinds.
LaterArg(kind) ==
    CASE kind \in ExecKinds -> 2
      [] kind = "batch" -> 2
      [] kind = "interval" -> 50
      [] OTHER -> 0

\* FluentAsyncIterator.batch, group, map, filter, interval, limit, peek,
\* split, concurrentMap and FluentPromiseIterator.concurrentResolve: call the
\* generator function and wrap the generator it returns.  On a handle that
\* an earlier pipeline has used, the pipelines built are those of limit
\* stages.
Chain(kind, arg) ==
    /\ phase = "build"
    /\ Len(chain) < MaxStages
    /\ arg \in StageArgs(kind)
    /\ (chain # << >> /\ kind \notin RunKinds) => arg = LaterArg(kind)
    /\ npipes > 1 => kind = "limit"
    /\ IF srcKind = "promises" /\ chain = << >>
       THEN kind = "concurrentResolve"
       ELSE kind # "concurrentResolve"
    /\ chain' = Append(chain, NewStage(kind, arg, srcLen))
    /\ srcCalls' = srcCalls + BodyPullsAtCall(kind)
    /\ UNCHANGED << srcKind, srcLen, srcPos, srcState, phase, terminal, ctl,
                    taken, results, failure, delivered, npipes,
                    prev, now >>

\* The pipelines whose run is modelled: stages of the kinds in RunKinds, and
\* an executor, batch, group, split or interval as the only stage of its
\* pipeline.
Runnable(c) ==
    /\ srcKind = "promises" => c # << >>
    /\ \/ \A k \in 1..Len(c) : c[k].kind \in RunKinds
       \/ Len(c) = 1 /\ c[1].kind \in AloneKinds

\* FluentAsyncIterator.collect, drain: the first next() of the for await.
\* iterable: the caller drives the returned source with next() by hand; this
\* consumer is run on single executors.
Terminal(t) ==
    /\ phase = "build"
    /\ Runnable(chain)
    /\ t = "iterable" => Len(chain) = 1 /\ chain[1].kind \in ExecKinds
    /\ phase' = "run"
    /\ terminal' = t
    /\ ctl' = Ask(Len(chain) + 1)
    /\ UNCHANGED << srcKind, srcLen, srcPos, srcCalls, srcState, chain,
                    taken, results, failure, delivered, npipes,
                    prev, now >>

\* async function* source() { yield* [1, 2, ..., srcLen] }, or the iterator of
\* the array of promises: answer one next().
SourceStep ==
    /\ phase = "run"
    /\ ctl.at = 0
    /\ ctl.ev = "next"
    /\ srcCalls' = srcCalls + 1
    /\ IF srcState = "open" /\ srcPos < srcLen
       THEN /\ srcPos' = srcPos + 1
            /\ ctl' = Give(0, srcPos + 1)
            /\ UNCHANGED srcState
       ELSE /\ srcState' = IF srcState = "open" THEN "done" ELSE srcState
            /\ ctl' = End(0)
            /\ UNCHANGED srcPos
    /\ UNCHANGED << srcKind, srcLen, chain, phase, terminal, taken, results, failure,
                    delivered, npipes,
                    prev, now >>

StageVars == << srcKind, srcLen, srcPos, srcCalls, srcState, phase, terminal,
                taken, results, failure, delivered, npipes,
                    prev, now >>

\* A generator resumed by next(): the for await asks upstream for an element.
Resume(k, st) ==
    IF st.pc = "done"
    THEN ctl' = End(k) /\ UNCHANGED chain
    ELSE /\ SetStage(k, [st EXCEPT !.pc = "await", !.reqs = @ + 1])
         /\ ctl' = Ask(k)

\* yield v: hand v to the consumer and stay suspended at the yield.
Yield(k, st, v) ==
    /\ SetStage(k, [st EXCEPT !.pc = "yield", !.outs = Append(@, v)])
    /\ ctl' = Give(k, v)

\* The generator returns: its consumer learns that it is exhausted.
Return(k, st) ==
    /\ SetStage(k, [st EXCEPT !.pc = "done"])
    /\ ctl' = End(k)

Took(st, v) == [st EXCEPT !.ins = Append(@, v)]

\* asyncMapIterator: for await (const item of source) yield func(item)
MapStep(k) ==
    /\ At(k, {"map"})
    /\ LET st == chain[k] IN
       CASE ctl.ev = "next" -> Resume(k, st)
         [] ctl.ev = "val" -> Yield(k, Took(st, ctl.val), MapFunc(ctl.val))
         [] ctl.ev = "end" -> Return(k, st)
    /\ UNCHANGED StageVars

\* filterIterator: for await (const item of source) if (predicate(item)) yield item
FilterStep(k) ==
    /\ At(k, {"filter"})
    /\ LET st == chain[k] IN
       CASE ctl.ev = "next" -> Resume(k, st)
         [] ctl.ev = "val" ->
              IF Pred(st.arg, ctl.val)
              THEN Yield(k, Took(st, ctl.val), ctl.val)
              ELSE /\ SetStage(k, [Took(st, ctl.val) EXCEPT !.reqs = @ + 1])
                   /\ ctl' = Ask(k)
         [] ctl.ev = "end" -> Return(k, st)
    /\ UNCHANGED StageVars

\* PeekCall that never calls func.
PeekCallSkipped(log, v) == log

\* func(item) of peek: the test's x => nums.push(x)
PeekCall(log, v) == Append(log, v)

\* peekIterator: for await (const item of source) { func(item); yield item }
PeekStep(k) ==
    /\ At(k, {"peek"})
    /\ LET st == chain[k] IN
       CASE ctl.ev = "next" -> Resume(k, st)
         [] ctl.ev = "val" ->
              Yield(k, [Took(st, ctl.val) EXCEPT !.log = PeekCall(@, ctl.val)],
                    ctl.val)
         [] ctl.ev = "end" -> Return(k, st)
    /\ UNCHANGED StageVars

\* limitIterator: while (++i <= count) { const { value, done } = await
\* gen.next(); if (!done) yield value; else break }
LimitStep(k) ==
    /\ At(k, {"limit"})
    /\ LET st == chain[k] IN
       CASE ctl.ev = "next" ->
              IF st.pc = "done"
              THEN ctl' = End(k) /\ UNCHANGED chain
              ELSE IF LimitContinues(st.i + 1, st.arg)
                   THEN /\ SetStage(k, [st EXCEPT !.i = @ + 1, !.pc = "await",
                                                  !.reqs = @ + 1])
                        /\ ctl' = Ask(k)
                   ELSE Return(k, [st EXCEPT !.i = @ + 1])
         [] ctl.ev = "val" -> Yield(k, Took(st, ctl.val), ctl.val)
         [] ctl.ev = "end" -> Return(k, st)
    /\ UNCHANGED StageVars

\* BatchFull that waits for one element more than the size.
BatchFullLate(batch, size) == Len(batch) = size + 1

\* batch.length === size
BatchFull(batch, size) == Len(batch) = size

\* HasPartial that flushes an empty container too.
HasPartialAlways(batch) == Len(batch) >= 0

\* batch.length > 0
HasPartial(batch) == Len(batch) > 0

\* batchIterator: for await (const item of source) { batch.push(item); if
\* (batch.length === size) { yield batch; batch = [] } } if (batch.length > 0)
\* yield batch
BatchStep(k) ==
    /\ At(k, {"batch"})
    /\ LET st == chain[k] IN
       CASE ctl.ev = "next" ->
              IF st.pc = "final"
              THEN Return(k, st)
              ELSE Resume(k, IF st.pc = "yield" THEN [st EXCEPT !.buf = << >>]
                             ELSE st)
         [] ctl.ev = "val" ->
              LET st2 == [Took(st, ctl.val) EXCEPT !.buf = Append(@, ctl.val)]
              IN  IF BatchFull(st2.buf, st2.arg)
                  THEN Yield(k, st2, st2.buf)
                  ELSE /\ SetStage(k, [st2 EXCEPT !.reqs = @ + 1])
                       /\ ctl' = Ask(k)
         [] ctl.ev = "end" ->
              IF HasPartial(st.buf)
              THEN /\ SetStage(k, [st EXCEPT !.pc = "final",
                                             !.outs = Append(@, st.buf)])
                   /\ ctl' = Give(k, st.buf)
              ELSE Return(k, st)
    /\ UNCHANGED StageVars

\* item[groupBy]: the key of element x under the three key fields of the
\* model: every element its own key, keys shared by two neighbours, one key
\* for all.  The source 1, 2, ... is sorted by each of them.
KeyOf(groupBy, x) ==
    CASE groupBy = 0 -> x
      [] groupBy = 1 -> (x + 1) \div 2
      [] OTHER -> 0

\* SameKey that never finds two keys equal.
SameKeyNever(a, b) == FALSE

\* currentGroup.key == item[groupBy]
SameKey(a, b) == a = b

\* the record { key, group } that groupIterator yields
GroupRecord(st) == [key |-> st.key, group |-> st.buf]

\* setCurrentGroup(item): currentGroup = { key: item[groupBy], group: [item] }
SetCurrentGroup(st, x) ==
    [st EXCEPT !.has = TRUE, !.key = KeyOf(st.arg, x), !.buf = << x >>]

\* groupIterator: the first item opens a group, an item with the key of the
\* current group joins it, an item with another key makes the generator
\* yield the current group and then open the next one; the last group is
\* yielded when the source is exhausted.
GroupStep(k) ==
    /\ At(k, {"group"})
    /\ LET st == chain[k] IN
       CASE ctl.ev = "next" ->
              IF st.pc = "final"
              THEN Return(k, st)
              ELSE Resume(k, IF st.pc = "yield" THEN SetCurrentGroup(st, st.item)
                             ELSE st)
         [] ctl.ev = "val" ->
              LET st2 == Took(st, ctl.val) IN
              IF ~st.has
              THEN /\ SetStage(k, [SetCurrentGroup(st2, ctl.val)
                                      EXCEPT !.reqs = @ + 1])
                   /\ ctl' = Ask(k)
              ELSE IF SameKey(st.key, KeyOf(st.arg, ctl.val))
              THEN /\ SetStage(k, [st2 EXCEPT !.buf = Append(@, ctl.val),
                                              !.reqs = @ + 1])
                   /\ ctl' = Ask(k)
              ELSE Yield(k, [st2 EXCEPT !.item = ctl.val], GroupRecord(st))
         [] ctl.ev = "end" ->
              IF st.has
              THEN /\ SetStage(k, [st EXCEPT !.pc = "final",
                                             !.outs = Append(@, GroupRecord(st))])
                   /\ ctl' = Give(k, GroupRecord(st))
              ELSE Return(k, st)
    /\ UNCHANGED StageVars

\* HasTrailing that flushes an empty trailing segment too.
HasTrailingAlways(split) == Len(split) >= 0

\* currentSplit.length > 0
HasTrailing(split) == Len(split) > 0

\* splitIterator: for await (const item of source) { if (predicate(item)) {
\* yield currentSplit; currentSplit = [] } else currentSplit.push(item) }
\* if (currentSplit.length > 0) yield currentSplit
SplitStep(k) ==
    /\ At(k, {"split"})
    /\ LET st == chain[k] IN
       CASE ctl.ev = "next" ->
              IF st.pc = "final"
              THEN Return(k, st)
              ELSE Resume(k, IF st.pc = "yield" THEN [st EXCEPT !.buf = << >>]
                             ELSE st)
         [] ctl.ev = "val" ->
              IF Pred(st.arg, ctl.val)
              THEN Yield(k, Took(st, ctl.val), st.buf)
              ELSE /\ SetStage(k, [Took(st, ctl.val) EXCEPT
                                      !.buf = Append(@, ctl.val),
                                      !.reqs = @ + 1])
                   /\ ctl' = Ask(k)
         [] ctl.ev = "end" ->
              IF HasTrailing(st.buf)
              THEN /\ SetStage(k, [st EXCEPT !.pc = "final",
                                             !.outs = Append(@, st.buf)])
                   /\ ctl' = Give(k, st.buf)
              ELSE Return(k, st)
    /\ UNCHANGED StageVars

\* The clock advances by TickMs at a time.
TickMs == 25

\* Time passes while something outside the generators is awaited: the
\* source producing an element, the timer of delay, the consumer working on
\* the element it was handed.  The clock is followed in the pipelines that
\* have an interval stage.
Tick ==
    /\ phase = "run"
    /\ \E k \in 1..Len(chain) : chain[k].kind = "interval"
    /\ now < MaxTicks * TickMs
    /\ ctl.at = 0 \/ ctl.ev = "wait" \/ ctl.at = Len(chain) + 1
    /\ now' = now + TickMs
    /\ UNCHANGED << srcKind, srcLen, srcPos, srcCalls, srcState, chain, phase,
                    terminal, ctl, taken, results, failure, delivered, npipes,
                    prev >>

\* TimerDelay that lets a negative delay through.
TimerDelayRaw(ms) == ms

\* setTimeout(resolve, ms): a negative delay is no delay
TimerDelay(ms) == IF ms < 0 THEN 0 ELSE ms

\* intervalIterator: for await (const item of source) { let deltaStart =
\* Date.now(); yield item; let delta = Date.now() - deltaStart; await
\* delay(ms - delta) }.  The generator is resumed from the yield by the
\* consumer's next(), starts the timer, and pulls its source when the timer
\* has fired.
IntervalStep(k) ==
    /\ At(k, {"interval"})
    /\ LET st == chain[k] IN
       CASE ctl.ev = "next" ->
              IF st.pc = "yield"
              THEN LET delta == now - st.deltaStart
                       d == TimerDelay(st.arg - delta)
                   IN  /\ SetStage(k, [st EXCEPT !.pc = "delay",
                                                  !.due = now + d,
                                                  !.resumes = Append(@, now),
                                                  !.waits = Append(@, d)])
                       /\ ctl' = Wait(k)
              ELSE IF st.pc = "done"
              THEN ctl' = End(k) /\ UNCHANGED chain
              ELSE Resume(k, [st EXCEPT !.asks = Append(@, now)])
         [] ctl.ev = "wait" ->
              /\ st.pc = "delay"
              /\ now >= st.due
              /\ Resume(k, [st EXCEPT !.asks = Append(@, now)])
         [] ctl.ev = "val" ->
              Yield(k, [Took(st, ctl.val) EXCEPT !.deltaStart = now,
                                                 !.stamps = Append(@, now)],
                    ctl.val)
         [] ctl.ev = "end" -> Return(k, st)
    /\ UNCHANGED StageVars

\* Push that puts the item in front.
PushFront(results_, item) == << item >> \o results_

\* results.push(item)
Push(results_, item) == Append(results_, item)

\* collect: for await (const item of this.source) results.push(item);
\* drain: the same loop with an empty body.  A rejected next() ends the call
\* with that error, and the results array is lost with it.
\* iterable: the caller keeps calling next() until it is told done, also
\* after a next() that rejected.
ConsumerStep ==
    /\ phase = "run"
    /\ ctl.at = Len(chain) + 1
    /\ CASE ctl.ev = "val" ->
              /\ taken' = Append(taken, ctl.val)
              /\ results' = IF terminal = "collect"
                            THEN Push(results, ctl.val) ELSE results
              /\ ctl' = Ask(Len(chain) + 1)
              /\ UNCHANGED << phase, failure >>
         [] ctl.ev = "end" ->
              /\ phase' = "finished"
              /\ ctl' = Idle
              /\ UNCHANGED << taken, results, failure >>
         [] ctl.ev = "err" /\ terminal # "iterable" ->
              /\ phase' = "failed"
              /\ failure' = Append(failure, ctl.val)
              /\ results' = << >>
              /\ ctl' = Idle
              /\ UNCHANGED taken
         [] ctl.ev = "err" /\ terminal = "iterable" ->
              /\ failure' = Append(failure, ctl.val)
              /\ ctl' = Ask(Len(chain) + 1)
              /\ UNCHANGED << phase, taken, results >>
    /\ UNCHANGED << srcKind, srcLen, srcPos, srcCalls, srcState, chain,
                    terminal, delivered, npipes,
                    prev, now >>

OnlyLimits(c) == \A k \in 1..Len(c) : c[k].kind = "limit"

\* iterator(sourceIterator) once more, on the handle an earlier pipeline of
\* limit stages has left: the suspended generators of that pipeline are
\* never resumed again.
NewPipeline ==
    /\ phase = "finished"
    /\ srcKind = "async"
    /\ OnlyLimits(chain)
    /\ npipes < MaxPipelines
    /\ npipes' = npipes + 1
    /\ delivered' = delivered \o taken
    /\ taken' = << >>
    /\ results' = << >>
    /\ chain' = << >>
    /\ phase' = "build"
    /\ terminal' = "none"
    /\ UNCHANGED << srcKind, srcLen, srcPos, srcCalls, srcState, ctl, failure,
                    prev, now >>

----------------------------------------------------------------------------
\* The bounded-concurrency executor: concurrentMapIterator over an async
\* source, concurrentIterator over a collection of promises.

\* for await over an async source suspends the generator at every pull; for
\* over a collection does not.
AskUpstream(k, st) ==
    /\ SetStage(k, [st EXCEPT !.pc = "await", !.reqs = @ + 1,
                              !.fresh = IF st.kind = "concurrentMap"
                                        THEN << >> ELSE @])
    /\ ctl' = Ask(k)

\* await Promise.race(...): suspended until the race has a winner.
AwaitRace(k, st, pc) ==
    /\ SetStage(k, [st EXCEPT !.pc = pc, !.fresh = << >>,
                       !.winner = RaceStart(st.pool, Settled(st), st.fresh)])
    /\ ctl' = Wait(k)

\* yield* racingDrain(pool), and the while of racingDrain
Drain(k, st) ==
    IF PoolOps(st.pool) = {}
    THEN Return(k, st)
    ELSE AwaitRace(k, st, "drain")

\* Thrown that leaves the generator suspended at its yield, able to go on.
ThrownResumes(st, e) == [st EXCEPT !.pc = "yield", !.errs = Append(@, e)]

\* An error thrown out of the generator body completes the generator: there
\* is no try/catch in concurrentMapIterator, concurrentIterator, racingDrain.
Thrown(st, e) == [st EXCEPT !.pc = "done", !.errs = Append(@, e)]

\* next() on the executor's generator: start the body, or go on after a yield.
ExecNext(k) ==
    /\ At(k, ExecKinds)
    /\ ctl.ev = "next"
    /\ LET st == chain[k] IN
       CASE st.pc = "new" ->
              IF ArrayFails(st.arg)
              THEN /\ SetStage(k, Thrown(st, RangeError))
                   /\ ctl' = Throw(k, RangeError)
              ELSE IF InvalidCount(FreeSlots(st.arg))
              THEN /\ SetStage(k, Thrown(st, ConfigError))
                   /\ ctl' = Throw(k, ConfigError)
              ELSE AskUpstream(k, [st EXCEPT !.slots = FreeSlots(st.arg)])
         [] st.pc = "yield" -> AskUpstream(k, st)
         [] st.pc = "drainYield" ->
              Drain(k, [st EXCEPT !.pool = DeleteSlot(@, st.winner)])
         [] st.pc = "done" -> ctl' = End(k) /\ UNCHANGED chain
    /\ UNCHANGED StageVars

\* FuncCall that calls func a second time on the item.
FuncCallTwice(calls, item) == Append(Append(calls, item), item)

\* func(item): the calls func has received
FuncCall(calls, item) == Append(calls, item)

\* The loop body: const slot = slots.pop(); pool[slot] = func(item).then(...)
\* and, when no slot is left, the race.
ExecSubmit(k) ==
    /\ At(k, ExecKinds)
    /\ ctl.ev = "val"
    /\ LET st == chain[k]
           n == Len(st.slots)
           slot == PopSlot(st.slots)
           st2 == [Took(st, ctl.val) EXCEPT
                     !.slots = SubSeq(@, 1, n - 1),
                     !.pool = PoolSet(@, slot, ctl.val),
                     !.fresh = Append(@, slot),
                     !.calls = IF st.kind = "concurrentMap"
                               THEN FuncCall(@, ctl.val) ELSE @,
                     !.pend = IF st.kind = "concurrentMap"
                              THEN @ \cup {ctl.val} ELSE @]
       IN  IF Saturated(st2.slots)
           THEN AwaitRace(k, st2, "race")
           ELSE AskUpstream(k, st2)
    /\ UNCHANGED StageVars

\* The source is exhausted: the loop ends and the drain begins.
ExecDrain(k) ==
    /\ At(k, ExecKinds)
    /\ ctl.ev = "end"
    /\ Drain(k, chain[k])
    /\ UNCHANGED StageVars

\* The race rejects when the promise that wins it has rejected: neither the
\* .then of the loop nor the await of racingDrain handles a rejection.
Rejects(st, op) == op \in st.rej

\* yield Promise.race(Object.values(pool)).then(completed => {
\* slots.push(completed.slot); return completed.result }).  A rejection is
\* thrown out of the for await, which closes an async source.
RaceYield(k) ==
    /\ At(k, ExecKinds)
    /\ ctl.ev = "wait"
    /\ LET st == chain[k]
           op == st.pool[st.winner]
       IN  /\ st.pc = "race"
           /\ st.winner # 0 - 1
           /\ IF Rejects(st, op)
              THEN /\ SetStage(k, Thrown(st, op))
                   /\ ctl' = Throw(k, op)
                   /\ srcState' = IF st.kind = "concurrentMap"
                                  THEN "closed" ELSE srcState
              ELSE /\ SetStage(k, [st EXCEPT !.pc = "yield",
                                             !.slots = Append(@, st.winner),
                                             !.outs = Append(@, op)])
                   /\ ctl' = Give(k, Func(op))
                   /\ UNCHANGED srcState
    /\ UNCHANGED << srcKind, srcLen, srcPos, srcCalls, phase, terminal,
                    taken, results, failure, delivered, npipes,
                    prev, now >>

\* racingDrain: const completed = await Promise.race(promises);
\* yield completed.result
DrainYield(k) ==
    /\ At(k, ExecKinds)
    /\ ctl.ev = "wait"
    /\ LET st == chain[k]
           op == st.pool[st.winner]
       IN  /\ st.pc = "drain"
           /\ st.winner # 0 - 1
           /\ IF Rejects(st, op)
              THEN /\ SetStage(k, Thrown(st, op))
                   /\ ctl' = Throw(k, op)
              ELSE /\ SetStage(k, [st EXCEPT !.pc = "drainYield",
                                             !.outs = Append(@, op)])
                   /\ ctl' = Give(k, Func(op))
    /\ UNCHANGED StageVars

\* SlotOf that names the lowest occupied slot whatever it holds.
SlotOfLowest(pool, v) ==
    IF DOMAIN pool = {} THEN 0 - 1 ELSE SetMin(DOMAIN pool)

\* The slot an operation is stored in, -1 when it is not in the pool.
SlotOf(pool, v) ==
    IF \E s \in DOMAIN pool : pool[s] = v
    THEN CHOOSE s \in DOMAIN pool : pool[s] = v
    ELSE 0 - 1

\* No promise reaction runs while concurrentIterator walks the collection:
\* from the next() that resumes it to its next await it runs synchronously.
\* Before its first next() the promises of the collection settle freely.
InSyncBlock(k) ==
    /\ chain[k].kind = "concurrentResolve"
    /\ chain[k].pc # "new"
    /\ ctl.at <= k
    /\ ctl.ev \in {"next", "val", "end"}

\* An operation fulfils (ok) or rejects.  The race the executor is awaiting
\* is won by the first operation of the pool to settle.  The promises
\* that settle before a pipeline is run are settled here before its first
\* step.  when keeps, for each operation of concurrentMap, how many results
\* had been yielded and how many the consumer had taken when it settled.
Settle(k, v, ok) ==
    /\ phase = "run"
    /\ k \in 1..Len(chain)
    /\ chain[k].kind \in ExecKinds
    /\ v \in chain[k].pend
    /\ ~InSyncBlock(k)
    /\ LET st == chain[k] IN
       SetStage(k, [st EXCEPT
           !.pend = @ \ {v},
           !.ful = IF ok THEN @ \cup {v} ELSE @,
           !.rej = IF ok THEN @ ELSE @ \cup {v},
           !.order = Append(@, v),
           !.when = IF st.kind = "concurrentMap"
                    THEN Append(@, << Len(st.outs), Len(taken) >>) ELSE @,
           !.winner = IF st.pc \in {"race", "drain"} /\ @ = 0 - 1
                      THEN SlotOf(st.pool, v) ELSE @])
    /\ UNCHANGED << srcKind, srcLen, srcPos, srcCalls, srcState, phase,
                    terminal, ctl, taken, results, failure, delivered, npipes,
                    prev, now >>

----------------------------------------------------------------------------
StageKinds == {"batch", "group", "map", "filter", "interval", "limit", "peek",
               "split", "concurrentMap", "concurrentResolve"}

Next ==
    \/ \E kind \in StageKinds : \E arg \in StageArgs(kind) : Chain(kind, arg)
    \/ \E t \in {"collect", "drain", "iterable"} : Terminal(t)
    \/ SourceStep
    \/ \E k \in 1..Len(chain) : MapStep(k)
    \/ \E k \in 1..Len(chain) : FilterStep(k)
    \/ \E k \in 1..Len(chain) : PeekStep(k)
    \/ \E k \in 1..Len(chain) : LimitStep(k)
    \/ \E k \in 1..Len(chain) : BatchStep(k)
    \/ \E k \in 1..Len(chain) : GroupStep(k)
    \/ \E k \in 1..Len(chain) : SplitStep(k)
    \/ \E k \in 1..Len(chain) : IntervalStep(k)
    \/ Tick
    \/ \E k \in 1..Len(chain) : ExecNext(k)
    \/ \E k \in 1..Len(chain) : ExecSubmit(k)
    \/ \E k \in 1..Len(chain) : ExecDrain(k)
    \/ \E k \in 1..Len(chain) : RaceYield(k)
    \/ \E k \in 1..Len(chain) : DrainYield(k)
    \/ \E k \in 1..Len(chain) : \E v \in 1..MaxLen : \E ok \in BOOLEAN :
          Settle(k, v, ok)
    \/ ConsumerStep
    \/ NewPipeline

Spec == Init /\ [][Next]_vars

----------------------------------------------------------------------------
\* promiseIterator(promises).concurrentResolve(count) on its own, over the
\* larger collections of the test: promises that all fulfil, in any order.

InitResolve ==
    /\ srcKind = "promises"
    /\ srcLen \in 0..MaxPromises
    /\ srcPos = 0
    /\ srcCalls = 0
    /\ srcState = "open"
    /\ chain = << >>
    /\ phase = "build"
    /\ terminal = "none"
    /\ ctl = Idle
    /\ taken = << >>
    /\ results = << >>
    /\ failure = << >>
    /\ delivered = << >>
    /\ npipes = 1
    /\ prev = << >>
    /\ now = 0

NextResolve ==
    \/ \E arg \in 1..MaxCount : chain = << >> /\ Chain("concurrentResolve", arg)
    \/ \E t \in {"collect", "drain"} : Terminal(t)
    \/ SourceStep
    \/ \E k \in 1..Len(chain) : ExecNext(k)
    \/ \E k \in 1..Len(chain) : ExecSubmit(k)
    \/ \E k \in 1..Len(chain) : ExecDrain(k)
    \/ \E k \in 1..Len(chain) : RaceYield(k)
    \/ \E k \in 1..Len(chain) : DrainYield(k)
    \/ \E k \in 1..Len(chain) : \E v \in 1..MaxPromises : Settle(k, v, TRUE)
    \/ ConsumerStep

SpecResolve == InitResolve /\ [][NextResolve]_vars

----------------------------------------------------------------------------
\* iterator(source).concurrentMap(func, count) on its own, with operations
\* that all fulfil, a consumer that keeps pulling and an event loop that
\* runs every continuation that is ready.

InitMap ==
    /\ srcKind = "async"
    /\ srcLen \in 0..MaxLen
    /\ srcPos = 0
    /\ srcCalls = 0
    /\ srcState = "open"
    /\ chain = << >>
    /\ phase = "build"
    /\ terminal = "none"
    /\ ctl = Idle
    /\ taken = << >>
    /\ results = << >>
    /\ failure = << >>
    /\ delivered = << >>
    /\ npipes = 1
    /\ prev = << >>
    /\ now = 0

\* A continuation of the pipeline runs.
RunStep ==
    \/ SourceStep
    \/ \E k \in 1..Len(chain) :
          ExecNext(k) \/ ExecSubmit(k) \/ ExecDrain(k) \/ RaceYield(k)
              \/ DrainYield(k)
    \/ ConsumerStep

\* An operation in flight fulfils.
Fulfil == \E k \in 1..Len(chain) : \E v \in 1..MaxLen : Settle(k, v, TRUE)

NextMap ==
    \/ \E arg \in 1..MaxCount : chain = << >> /\ Chain("concurrentMap", arg)
    \/ \E t \in {"collect", "drain"} : Terminal(t)
    \/ RunStep
    \/ Fulfil

SpecMap ==
    InitMap /\ [][NextMap]_vars /\ WF_vars(RunStep) /\ WF_vars(Fulfil)

----------------------------------------------------------------------------
\* The two modes side by side: a run of concurrentMap(func, count) over a
\* source, then concurrentResolve(count) over a collection of as many
\* pending promises, which settle in the order and at the moments the
\* operations of the first run did: after as many yielded results and as
\* many pulls of the consumer.

\* promiseIterator(promises).concurrentResolve(count) with the terminal
\* operation of the first run, once that run has finished.
Replay ==
    /\ phase = "finished"
    /\ srcKind = "async"
    /\ prev = << >>
    /\ Len(chain) = 1
    /\ chain[1].kind = "concurrentMap"
    /\ prev' = << chain[1] >>
    /\ srcKind' = "promises"
    /\ srcPos' = 0
    /\ srcCalls' = 0
    /\ srcState' = "open"
    /\ chain' = << NewStage("concurrentResolve", chain[1].arg, srcLen) >>
    /\ phase' = "run"
    /\ ctl' = Ask(2)
    /\ taken' = << >>
    /\ results' = << >>
    /\ UNCHANGED << srcLen, terminal, failure, delivered, npipes, now >>

\* Promise v is the next to settle in the schedule of the first run, and
\* the run is where the first run was when operation v settled.  The
\* promises of the collection are pending when the executor starts.
FollowsSchedule(st, v) ==
    prev # << >> =>
        LET n == Len(st.order) + 1 IN
        /\ st.pc # "new"
        /\ n <= Len(prev[1].order)
        /\ prev[1].order[n] = v
        /\ prev[1].when[n] = << Len(st.outs), Len(taken) >>

\* An operation fulfils, in the second run as it did in the first.
ScheduledFulfil ==
    \E k \in 1..Len(chain) : \E v \in 1..MaxLen :
        FollowsSchedule(chain[k], v) /\ Settle(k, v, TRUE)

NextModes ==
    \/ \E arg \in 1..MaxCount : chain = << >> /\ Chain("concurrentMap", arg)
    \/ \E t \in {"collect", "drain"} : Terminal(t)
    \/ RunStep
    \/ ScheduledFulfil
    \/ Replay

SpecModes == InitMap /\ [][NextModes]_vars

----------------------------------------------------------------------------
\* Properties of the executor.

Range(q) == {q[j] : j \in 1..Len(q)}

\* << 1, ..., n >>: the first n elements of the source.
SourcePrefix(n) == [j \in 1..n |-> j]

\* The elements the stage at k has been handed when it is the first stage on
\* a fresh source: the source prefix, less the element still on its way.
Arrived(k) == SourcePrefix(IF ctl.at = k /\ ctl.ev = "val" THEN srcPos - 1
                           ELSE srcPos)

\* The first k elements of q, all of q when it is shorter.
Take(q, k) == SubSeq(q, 1, IF Len(q) < k THEN Len(q) ELSE k)

\* How many times v occurs in q.
Count(q, v) == Cardinality({j \in 1..Len(q) : q[j] = v})

\* Where v occurs first in q.
FirstIdx(q, v) == SetMin({j \in 1..Len(q) : q[j] = v})

ConcurrentMaps == {k \in 1..Len(chain) : chain[k].kind = "concurrentMap"}
Execs == {k \in 1..Len(chain) : chain[k].kind \in ExecKinds}

\* The executor has signalled exhaustion and none of its operations failed.
Exhausted(st) == st.pc = "done" /\ st.errs = << >> /\ st.rej = {}

\* C1: when concurrentMap signals exhaustion over a source whose operations
\* all fulfilled, it has yielded exactly as many results as it pulled
\* elements, the result of each operation exactly once.
C1_ExactlyOnce ==
    \A k \in ConcurrentMaps :
        LET st == chain[k] IN
        Exhausted(st) =>
            /\ Len(st.outs) = Len(st.ins)
            /\ \A v \in Range(st.ins) : Count(st.outs, v) = 1

\* C2: when concurrentMap signals exhaustion over a source whose operations
\* all fulfilled, the result of every operation it started has been yielded
\* at least once.
C2_NoResultLost ==
    \A k \in ConcurrentMaps :
        LET st == chain[k] IN
        Exhausted(st) => \A v \in Range(st.ins) : Count(st.outs, v) >= 1

\* More elements than slots, yielded in an order that is not the order of
\* submission, and the executor exhausted.
C2_Witness ==
    \E k \in ConcurrentMaps :
        LET st == chain[k] IN
        /\ Exhausted(st)
        /\ st.arg = 2
        /\ st.ins = << 1, 2, 3 >>
        /\ st.outs[1] = 2

\* C3: concurrentMap(func, N) never has more than N operations started and
\* not yet settled.
C3_AtMostNInFlight ==
    \A k \in ConcurrentMaps :
        LET st == chain[k] IN
        Cardinality(st.pend) <= (IF st.arg < 0 THEN 0 ELSE st.arg)

\* A slot was recycled and the pool holds N unsettled operations again.
C3_Witness ==
    \E k \in ConcurrentMaps :
        LET st == chain[k] IN
        /\ st.arg = 2
        /\ Cardinality(st.pend) = 2
        /\ Len(st.outs) >= 1

\* C4: backpressure: concurrentMap never has a pull of the source under way
\* while its pool holds N operations whose results have not been yielded,
\* and the elements it has pulled never exceed the results it has yielded by
\* more than N.
C4_Backpressure ==
    \A k \in ConcurrentMaps :
        LET st == chain[k] IN
        st.arg >= 1 =>
            /\ Len(st.ins) <= Cardinality(Range(st.outs)) + st.arg
            /\ st.pc = "await" =>
                  Cardinality(PoolOps(st.pool) \ Range(st.outs)) < st.arg

\* The executor has pulled as far ahead as it may, after a first yield.
C4_Witness ==
    \E k \in ConcurrentMaps :
        LET st == chain[k] IN
        /\ st.arg = 2
        /\ Len(st.outs) = 1
        /\ Len(st.ins) = 3

\* C5: the results of concurrentMap come out in the order of completion: an
\* operation whose result is first yielded before that of another one
\* settled no later than it.
C5_CompletionOrder ==
    \A k \in ConcurrentMaps :
        LET st == chain[k] IN
        \A a, b \in Range(st.outs) :
            FirstIdx(st.outs, a) < FirstIdx(st.outs, b)
                => FirstIdx(st.order, a) <= FirstIdx(st.order, b)

\* C6: an executor of either mode built with a bound below 1 fails its first
\* pull with an error, having taken nothing from its input, started or raced
\* nothing and yielded nothing.
C6_InvalidCount ==
    \A k \in Execs :
        LET st == chain[k] IN
        st.arg < 1 =>
            /\ st.pc \in {"new", "done"}
            /\ st.reqs = 0
            /\ st.ins = << >>
            /\ st.outs = << >>
            /\ PoolOps(st.pool) = {}
            /\ st.winner = 0 - 1
            /\ st.kind = "concurrentMap" => Settled(st) \cup st.pend = {}
            /\ st.pc = "done" =>
                  /\ Len(st.errs) = 1
                  /\ st.errs[1] \in {ConfigError, RangeError}
                  /\ phase \in {"run", "failed"} \/ terminal = "iterable"
                  /\ phase \in {"failed", "finished"} => failure = st.errs

\* concurrentResolve(0) and concurrentMap(0): the terminal operation failed
\* with the configuration error.
C6_Witness ==
    /\ phase = "failed"
    /\ failure = << ConfigError >>
    /\ \E k \in Execs : chain[k].arg = 0 /\ chain[k].pc = "done"
    /\ srcLen > 0

\* C7: once the executor has finished, the rejection of every
\* operation that rejected has been delivered to the consumer as the failure
\* of a pull.
C7_EveryRejectionDelivered ==
    \A k \in ConcurrentMaps :
        LET st == chain[k] IN
        st.pc = "done" => \A v \in st.rej : v \in Range(st.errs)

ConcurrentResolves ==
    {k \in 1..Len(chain) : chain[k].kind = "concurrentResolve"}

\* The latencies 10, 20, 30, 40, 10 of the test: the promises settle in the
\* order 1, 5, 2, 3, 4.
TestOrder == << 1, 5, 2, 3, 4 >>
TestResults == << 1, 2, 3, 5 >>

IsPrefix(p, q) == Len(p) <= Len(q) /\ p = SubSeq(q, 1, Len(p))

\* C11: the k-th result concurrentResolve(N) yields is an operation that has
\* settled and belongs to the first N + k - 1 elements of the collection,
\* and only elements bound to a slot are yielded; with five promises that
\* settle in the order 1, 5, 2, 3, 4 and N = 2 the first four results are
\* 1, 2, 3, 5, the fourth being yielded before promise 4 has settled.
C11_SlotBound ==
    \A k \in ConcurrentResolves :
        LET st == chain[k] IN
        /\ \A j \in 1..Len(st.outs) :
              /\ st.outs[j] <= st.arg + j - 1
              /\ st.outs[j] \in Settled(st)
              /\ st.outs[j] \in Range(st.ins)
        /\ Len(st.ins) <= Len(st.outs) + st.arg
        /\ ( /\ st.arg = 2
             /\ srcLen = 5
             /\ IsPrefix(st.order, SubSeq(TestOrder, 1, 4)) )
           => IsPrefix(Take(st.outs, 4), TestResults)

\* The test: promise 5 settled before promises 2, 3 and 4 and is yielded
\* fourth, after 1, 2 and 3, while promise 4 is still pending.
C11_Witness ==
    \E k \in ConcurrentResolves :
        LET st == chain[k] IN
        /\ st.arg = 2
        /\ srcLen = 5
        /\ st.order = << 1, 5, 2, 3 >>
        /\ Take(st.outs, 4) = TestResults
\* C16: whenever the executor stores a new operation in a slot of the pool
\* that already has an occupant, that occupant has settled, its result has
\* been yielded and the slot was in the free-slot registry.
C16_NoEarlyReuse ==
    [][\A k \in 1..Len(chain) :
          (k <= Len(chain') /\ chain[k].kind \in ExecKinds) =>
              \A s \in DOMAIN chain[k].pool \cap DOMAIN chain'[k].pool :
                  chain'[k].pool[s] # chain[k].pool[s] =>
                      /\ chain[k].pool[s] \in Settled(chain[k])
                      /\ chain[k].pool[s] \in Range(chain[k].outs)
                      /\ s \in Range(chain[k].slots)]_vars

\* A slot has been given to a second operation: with N = 2 the third
\* element occupies the slot of an operation whose result was yielded.
C16_Witness ==
    \E k \in Execs :
        LET st == chain[k] IN
        /\ st.arg = 2
        /\ \E s \in DOMAIN st.pool : st.pool[s] = 3
        /\ Len(st.outs) >= 1
        /\ Cardinality(st.pend) = 2

\* C17: func has been called exactly once on each element concurrentMap has
\* pulled, in the order pulled, and on nothing else; the operations that
\* exist are those of these calls, one per element, also after a rejection.
C17_OncePerElement ==
    \A k \in ConcurrentMaps :
        LET st == chain[k] IN
        /\ st.calls = st.ins
        /\ \A v \in Range(st.ins) : Count(st.calls, v) = 1
        /\ st.pend \cup Settled(st) = Range(st.calls)
        /\ PoolOps(st.pool) \subseteq Range(st.calls)
        /\ k = 1 => st.ins = Arrived(1)

\* The first of three operations rejected and the pull failed with it:
\* func was called on the two elements pulled, once each.
C17_Witness ==
    \E k \in ConcurrentMaps :
        LET st == chain[k] IN
        /\ st.arg = 2
        /\ srcLen = 3
        /\ st.rej = {1}
        /\ phase = "failed"
        /\ st.calls = << 1, 2 >>

\* The source has reported exhaustion to the executor, and no pull failed.
DrainBegun(st) ==
    st.pc \in {"drain", "drainYield"} \/ (st.pc = "done" /\ st.errs = << >>)

Draining == \E k \in ConcurrentMaps : chain[k].pc \in {"drain", "drainYield"}

\* C18: once concurrentMap has seen its source exhausted it has pulled once
\* per element plus the pull that reported exhaustion, and called func once
\* per element, and it does neither again; it yields at most one result per
\* pull of the consumer; when every operation fulfils and the consumer
\* keeps pulling, a drain that has begun leads to exhaustion being signalled
\* to the terminal operation; and when exhaustion is signalled the pool is
\* empty and every operation's result has been yielded.
C18_DrainTerminates ==
    /\ [](\A k \in ConcurrentMaps :
            LET st == chain[k] IN
            /\ DrainBegun(st) =>
                  /\ st.reqs = Len(st.ins) + 1
                  /\ st.calls = st.ins
                  /\ st.ins = SourcePrefix(srcLen)
                  /\ srcCalls = srcLen + 1
                  /\ srcState = "done"
            /\ Len(st.outs) <= Len(taken) + 1
            /\ Exhausted(st) =>
                  /\ DOMAIN st.pool = {}
                  /\ Range(st.ins) \subseteq Range(st.outs))
    /\ Draining ~> (phase = "finished" /\ \A k \in ConcurrentMaps :
                                            Exhausted(chain[k]))

\* Two operations drained from a pool of three slots, both results handed
\* to the terminal operation, which has finished.
C18_Witness ==
    \E k \in ConcurrentMaps :
        LET st == chain[k] IN
        /\ st.arg = 3
        /\ srcLen = 2
        /\ phase = "finished"
        /\ Exhausted(st)
        /\ DOMAIN st.pool = {}
        /\ Len(taken) = 2

\* C19: concurrentMap(func, N) races and yields only after N submissions
\* or after its source is exhausted, and while a slot is free after a
\* submission it is pulling its source; so when N is no less than the
\* length of the source, func has been called on every element before the
\* first result is yielded.
C19_FillBeforeYield ==
    \A k \in ConcurrentMaps :
        LET st == chain[k] IN
        st.arg >= 1 =>
            /\ (st.outs # << >> \/ st.errs # << >>
                   \/ st.pc \in {"race", "yield"}) =>
                  (Len(st.calls) >= st.arg \/ srcState = "done")
            /\ (st.ins # << >> /\ Len(st.ins) < st.arg /\ srcState = "open") =>
                  st.pc = "await"
            /\ (k = 1 /\ st.arg >= srcLen /\ st.outs # << >>) =>
                  st.calls = SourcePrefix(srcLen)

\* N = L = 3: the first result is yielded from the main loop when all three
\* operations have been started.
C19_Witness ==
    \E k \in ConcurrentMaps :
        LET st == chain[k] IN
        /\ st.arg = 3
        /\ srcLen = 3
        /\ st.pc = "yield"
        /\ Len(st.outs) = 1
        /\ st.calls = << 1, 2, 3 >>

\* C20: when concurrentResolve(N) has run to the end over the promises of a
\* finished run of concurrentMap(func, N), settled in the same order and at
\* the same moments relative to the results yielded and the consumer's
\* pulls, it has yielded the same sequence of results and left the same
\* free-slot registry and pool.
C20_ModesEquivalent ==
    ( /\ prev # << >>
      /\ phase = "finished"
      /\ chain[1].order = prev[1].order )
    => /\ chain[1].outs = prev[1].outs
       /\ chain[1].slots = prev[1].slots
       /\ chain[1].pool = prev[1].pool

\* The executor is suspended: at a yield, awaiting a pull of its source, or
\* awaiting a race, in the main loop or in the drain.
Observable(st) == st.pc \in {"await", "race", "yield", "drain", "drainYield"}

\* C15: whenever the executor is suspended, the keys of the pool and the
\* free-slot registry are disjoint and together count N.
C15_Complementary ==
    \A k \in Execs :
        LET st == chain[k] IN
        (st.arg >= 1 /\ Observable(st)) =>
            /\ DOMAIN st.pool \cap Range(st.slots) = {}
            /\ Cardinality(DOMAIN st.pool) + Len(st.slots) = st.arg

----------------------------------------------------------------------------
\* Properties of the stages.

Limits == {k \in 1..Len(chain) : chain[k].kind = "limit"}

\* C8: limit(count) yields at most count elements and pulls its upstream at
\* most count times; the source is never closed; and pipelines of limit
\* stages run one after another on one source handle have together been
\* handed exactly the elements the source has produced, in order, which is
\* the whole source once an unlimited collect has finished.
C8_LimitSlices ==
    /\ \A k \in Limits :
          /\ Len(chain[k].outs) <= chain[k].arg
          /\ chain[k].reqs <= chain[k].arg
    /\ OnlyLimits(chain) =>
          /\ srcState # "closed"
          /\ srcCalls <= srcPos + npipes
          /\ phase = "run" =>
                \E n \in {srcPos - 1, srcPos} :
                    delivered \o taken = SourcePrefix(n)
          /\ phase = "finished" => delivered \o taken = SourcePrefix(srcPos)
          /\ phase = "finished" /\ chain = << >> =>
                delivered \o taken = SourcePrefix(srcLen)

\* The test: limit(0), limit(2), then collect on a source of 1, 2, 3.
C8_Witness ==
    /\ npipes = 3
    /\ chain = << >>
    /\ phase = "finished"
    /\ srcLen = 3
    /\ delivered = << 1, 2 >>
    /\ results = << 3 >>
    /\ srcCalls = 4

\* C9: while no terminal operation has begun on a source, whatever stages
\* have been chained on it, the source has received no next(), no stage has
\* started its body or pulled, and concurrentMap has started no operation.
C9_Lazy ==
    npipes = 1 /\ phase = "build" =>
        /\ srcCalls = 0
        /\ srcPos = 0
        /\ \A k \in 1..Len(chain) :
              /\ chain[k].pc = "new"
              /\ chain[k].reqs = 0
              /\ chain[k].ins = << >>
              /\ PoolOps(chain[k].pool) = {}
              /\ chain[k].kind = "concurrentMap" =>
                    chain[k].pend \cup Settled(chain[k]) = {}

\* A chain of three stages, an executor among them, on a source that has
\* elements.
C9_Witness ==
    /\ npipes = 1
    /\ phase = "build"
    /\ srcLen > 0
    /\ Len(chain) = 3
    /\ chain[1].kind = "batch"
    /\ chain[2].kind = "concurrentMap"
    /\ chain[2].arg = 2
    /\ chain[3].kind = "limit"

\* The elements of 1..n that satisfy predicate p.
Sat(p, n) == {x \in 1..n : Pred(p, x)}

\* The shortest source prefix that holds k elements satisfying p, the whole
\* source when there are fewer.
PeekedLen(p, k) ==
    IF Cardinality(Sat(p, srcLen)) < k THEN srcLen
    ELSE SetMin({n \in 0..srcLen : Cardinality(Sat(p, n)) >= k})

\* The first k source elements satisfying p, in order.
FirstSat(p, k) ==
    LET RECURSIVE sel(_)
        sel(n) == IF n = 0 THEN << >>
                  ELSE IF Pred(p, n) THEN Append(sel(n - 1), n)
                  ELSE sel(n - 1)
    IN  Take(sel(srcLen), k)

\* C10: peek calls fn once on each element it pulls, in order, and forwards
\* it unchanged; peek, filter(p), limit(k) collected on a fresh source has
\* called fn on the source prefix ending at the k-th element satisfying p
\* and returns the first k elements satisfying p.
C10_Peek ==
    /\ \A k \in 1..Len(chain) :
          chain[k].kind = "peek" =>
              /\ chain[k].log = chain[k].ins
              /\ chain[k].outs = chain[k].ins
              /\ k = 1 /\ npipes = 1 =>
                    chain[k].log = SourcePrefix(IF ctl.at = 1 /\ ctl.ev = "val"
                                                THEN srcPos - 1 ELSE srcPos)
    /\ ( /\ npipes = 1
         /\ phase = "finished"
         /\ Len(chain) = 3
         /\ chain[1].kind = "peek"
         /\ chain[2].kind = "filter"
         /\ chain[3].kind = "limit" )
       => /\ chain[1].log = SourcePrefix(PeekedLen(chain[2].arg, chain[3].arg))
          /\ taken = FirstSat(chain[2].arg, chain[3].arg)
          /\ terminal = "collect" => results = taken

\* The test cut to three elements: peek, filter(x != 1), limit(2) on 1, 2, 3
\* returns 2, 3; and with limit(1) fn has seen 1, 2 only.
C10_Witness ==
    /\ npipes = 1
    /\ phase = "finished"
    /\ srcLen = 3
    /\ Len(chain) = 3
    /\ chain[1].kind = "peek"
    /\ chain[2].kind = "filter"
    /\ chain[2].arg = 0
    /\ chain[3].kind = "limit"
    /\ chain[3].arg = 1
    /\ chain[1].log = << 1, 2 >>
    /\ results = << 2 >>

\* The concatenation of the sequences in q.
Flat(q) ==
    LET RECURSIVE cat(_)
        cat(n) == IF n = 0 THEN << >> ELSE cat(n - 1) \o q[n]
    IN  cat(Len(q))

Batches == {k \in 1..Len(chain) : chain[k].kind = "batch"}

\* C12: batch(S), S >= 1: no batch is empty or longer than S, every batch
\* before the last has exactly S elements and a shorter one is yielded only
\* at exhaustion; the batches yielded, followed by the elements still in the
\* container, are the elements pulled, in order; once the stage has
\* finished the batches concatenate to the whole input, and collect returns
\* them (nothing for an empty input).
C12_Batch ==
    \A k \in Batches :
        LET st == chain[k]
            n == Len(st.outs)
        IN  /\ \A j \in 1..n : Len(st.outs[j]) >= 1 /\ Len(st.outs[j]) <= st.arg
            /\ \A j \in 1..(n - 1) : Len(st.outs[j]) = st.arg
            /\ (n > 0 /\ Len(st.outs[n]) < st.arg) => st.pc \in {"final", "done"}
            /\ Flat(st.outs) \o (IF st.pc \in {"new", "await"} THEN st.buf
                                 ELSE << >>) = st.ins
            /\ k = 1 => st.ins = Arrived(1)
            /\ (k = 1 /\ st.pc \in {"final", "done"}) =>
                  Flat(st.outs) = SourcePrefix(srcLen)
            /\ srcLen = 0 => st.outs = << >>
            /\ (Len(chain) = 1 /\ phase = "finished") =>
                  /\ st.pc = "done"
                  /\ taken = st.outs
                  /\ terminal = "collect" => results = st.outs

\* batch(2) over 1, 2, 3 collected: [[1, 2], [3]].
C12_Witness ==
    /\ phase = "finished"
    /\ terminal = "collect"
    /\ Len(chain) = 1
    /\ chain[1].kind = "batch"
    /\ chain[1].arg = 2
    /\ srcLen = 3
    /\ results = << << 1, 2 >>, << 3 >> >>

Groups == {k \in 1..Len(chain) : chain[k].kind = "group"}

\* The records group(key) owes for the source 1..n: one per key, holding the
\* elements of that key in order.
GroupsOf(groupBy, n) ==
    LET RECURSIVE grp(_)
        grp(m) ==
            IF m = 0 THEN << >>
            ELSE LET g == grp(m - 1)
                     last == Len(g)
                 IN  IF last > 0 /\ g[last].key = KeyOf(groupBy, m)
                     THEN [g EXCEPT ![last].group = Append(@, m)]
                     ELSE Append(g, [key |-> KeyOf(groupBy, m), group |-> << m >>])
    IN  grp(n)

\* The groups of the records in q, in order.
GroupsIn(q) == [j \in 1..Len(q) |-> q[j].group]

\* C13: group(key) over a source sorted by the key: the records yielded are
\* non-empty, adjacent ones differ in key, each holds elements of its key
\* only, and with the current group they hold the elements pulled, in
\* order; once the stage has finished the records are one per distinct key
\* with exactly the elements of that key, they concatenate to the input, and
\* collect returns them (nothing for an empty input).
C13_Group ==
    \A k \in Groups :
        LET st == chain[k]
            n == Len(st.outs)
        IN  /\ \A j \in 1..n :
                  /\ st.outs[j].group # << >>
                  /\ \A x \in Range(st.outs[j].group) :
                        KeyOf(st.arg, x) = st.outs[j].key
            /\ \A j \in 1..(n - 1) : st.outs[j].key # st.outs[j + 1].key
            /\ k = 1 => IsPrefix(st.outs, GroupsOf(st.arg, srcLen))
            /\ (k = 1 /\ st.pc \in {"final", "done"}) =>
                  /\ st.outs = GroupsOf(st.arg, srcLen)
                  /\ Flat(GroupsIn(st.outs)) = SourcePrefix(srcLen)
                  /\ n = Cardinality({KeyOf(st.arg, x) : x \in 1..srcLen})
            /\ srcLen = 0 => st.outs = << >>
            /\ (Len(chain) = 1 /\ phase = "finished") =>
                  /\ st.pc = "done"
                  /\ taken = st.outs
                  /\ terminal = "collect" => results = st.outs

\* Three elements, the first two sharing a key: two records.
C13_Witness ==
    /\ phase = "finished"
    /\ terminal = "collect"
    /\ Len(chain) = 1
    /\ chain[1].kind = "group"
    /\ chain[1].arg = 1
    /\ srcLen = 3
    /\ results = << [key |-> 1, group |-> << 1, 2 >>],
                    [key |-> 2, group |-> << 3 >>] >>

\* The image of q under map's function.
Mapped(q) == [j \in 1..Len(q) |-> MapFunc(q[j])]

\* The elements of q that satisfy predicate p, in order.
Filtered(p, q) ==
    LET RECURSIVE sel(_)
        sel(n) == IF n = 0 THEN << >>
                  ELSE IF Pred(p, q[n]) THEN Append(sel(n - 1), q[n])
                  ELSE sel(n - 1)
    IN  sel(Len(q))

\* C14: map yields the image of what it has pulled and filter the elements
\* satisfying p of what it has pulled, in the order pulled; on a fresh
\* source map(f).collect() returns f of every element in input order,
\* filter(p).collect() the elements satisfying p in input order, and
\* collect() on the bare source the input.
C14_OrderPreserving ==
    /\ \A k \in 1..Len(chain) :
          /\ chain[k].kind = "map" => chain[k].outs = Mapped(chain[k].ins)
          /\ chain[k].kind = "filter" =>
                chain[k].outs = Filtered(chain[k].arg, chain[k].ins)
    /\ (npipes = 1 /\ phase = "finished" /\ Len(chain) <= 1) =>
          /\ chain = << >> => taken = SourcePrefix(srcLen)
          /\ (chain # << >> /\ chain[1].kind = "map") =>
                taken = Mapped(SourcePrefix(srcLen))
          /\ (chain # << >> /\ chain[1].kind = "filter") =>
                taken = Filtered(chain[1].arg, SourcePrefix(srcLen))
    /\ (phase \in {"run", "finished"} /\ terminal = "collect") =>
          results = taken

\* The test 'filters': filter(x => x != 1) over 1, 2, 3 collects 2, 3.
C14_Witness ==
    /\ npipes = 1
    /\ phase = "finished"
    /\ terminal = "collect"
    /\ srcLen = 3
    /\ Len(chain) = 1
    /\ chain[1].kind = "filter"
    /\ chain[1].arg = 0
    /\ results = << 2, 3 >>

Splits == {k \in 1..Len(chain) : chain[k].kind = "split"}

\* The elements of q that do not satisfy predicate p, in order.
Rejected(p, q) ==
    LET RECURSIVE sel(_)
        sel(n) == IF n = 0 THEN << >>
                  ELSE IF Pred(p, q[n]) THEN sel(n - 1)
                  ELSE Append(sel(n - 1), q[n])
    IN  sel(Len(q))

\* The segments split(p) owes for the source 1..n: one, possibly empty, at
\* each element satisfying p, and the elements after the last such element.
SegmentsOf(p, n) ==
    LET RECURSIVE seg(_)
        seg(m) ==
            IF m = 0 THEN [done |-> << >>, cur |-> << >>]
            ELSE LET r == seg(m - 1) IN
                 IF Pred(p, m)
                 THEN [done |-> Append(r.done, r.cur), cur |-> << >>]
                 ELSE [r EXCEPT !.cur = Append(@, m)]
    IN  seg(n)

\* C21: split(p) never outputs an element satisfying p; the segments it has
\* yielded, followed by the current segment, are the elements pulled that do
\* not satisfy p, in order; it has yielded one segment per pulled element
\* satisfying p, and at exhaustion one more only if it is not empty; once
\* finished, the segments number (elements satisfying p) + (1 if the input
\* ends with a non-empty run) and concatenate to the input without the
\* elements satisfying p, and collect returns them.
C21_Split ==
    \A k \in Splits :
        LET st == chain[k]
            n == Len(st.outs)
            hits == Len(Filtered(st.arg, st.ins))
            all == SegmentsOf(st.arg, srcLen)
        IN  /\ \A j \in 1..n : \A x \in Range(st.outs[j]) : ~Pred(st.arg, x)
            /\ Flat(st.outs) \o (IF st.pc \in {"new", "await"} THEN st.buf
                                 ELSE << >>) = Rejected(st.arg, st.ins)
            /\ n = hits + (IF st.pc = "final" THEN 1 ELSE 0)
                  \/ (st.pc = "done" /\ n \in {hits, hits + 1})
            /\ st.pc = "final" => st.outs[n] # << >>
            /\ k = 1 => st.ins = Arrived(1)
            /\ (k = 1 /\ st.pc \in {"final", "done"}) =>
                  /\ st.outs = all.done \o (IF all.cur = << >> THEN << >>
                                             ELSE << all.cur >>)
                  /\ n = Cardinality(Sat(st.arg, srcLen))
                            + (IF all.cur = << >> THEN 0 ELSE 1)
                  /\ Flat(st.outs) = Rejected(st.arg, SourcePrefix(srcLen))
            /\ (Len(chain) = 1 /\ phase = "finished") =>
                  /\ st.pc = "done"
                  /\ taken = st.outs
                  /\ terminal = "collect" => results = st.outs

\* split(x => x != 1) over 1, 2, 3: the segment [1] at 2, an empty segment at
\* 3, and no trailing segment.
C21_Witness ==
    /\ phase = "finished"
    /\ terminal = "collect"
    /\ Len(chain) = 1
    /\ chain[1].kind = "split"
    /\ chain[1].arg = 0
    /\ srcLen = 3
    /\ results = << << 1 >>, << >> >>

Intervals == {k \in 1..Len(chain) : chain[k].kind = "interval"}

\* C22: interval(ms) on the logical clock: no delay is started before the
\* first element has been yielded; every later element is yielded, and
\* pulled from upstream, no earlier than ms after the moment just before the
\* previous element was yielded; the delay started when the consumer comes
\* back is ms less the time the consumer took since that moment, and zero,
\* never negative, when the consumer took ms or more; the elements pass in
\* order, unchanged.
C22_Interval ==
    \A k \in Intervals :
        LET st == chain[k]
            ms == st.arg
        IN  /\ st.stamps = << >> => (st.waits = << >> /\ Len(st.asks) <= 1)
            /\ Len(st.waits) = Len(st.resumes)
            /\ Len(st.waits) <= Len(st.stamps)
            /\ Len(st.asks) <= Len(st.waits) + 1
            /\ Len(st.stamps) = Len(st.outs)
            /\ \A j \in 2..Len(st.stamps) : st.stamps[j] >= st.stamps[j - 1] + ms
            /\ \A j \in 2..Len(st.asks) :
                  /\ st.asks[j] >= st.stamps[j - 1] + ms
                  /\ st.asks[j] >= st.resumes[j - 1] + st.waits[j - 1]
            /\ \A j \in 1..Len(st.waits) :
                  LET took == st.resumes[j] - st.stamps[j] IN
                  /\ st.waits[j] >= 0
                  /\ st.waits[j] = (IF took >= ms THEN 0 ELSE ms - took)
            /\ st.outs = st.ins
            /\ k = 1 => st.ins = Arrived(1)

\* The test 'takes into account time already passed during interval' on the
\* clock of the model: interval(50) over 1, 2, a consumer that takes 25 ms
\* with the first element; the stage waits the remaining 25 ms and the
\* second element is yielded 50 ms after the first.
C22_Witness ==
    /\ Len(chain) = 1
    /\ chain[1].kind = "interval"
    /\ chain[1].arg = 50
    /\ srcLen = 2
    /\ chain[1].stamps = << 0, 50 >>
    /\ chain[1].resumes[1] = 25
    /\ chain[1].waits[1] = 25
    /\ chain[1].outs = << 1, 2 >>

----------------------------------------------------------------------------
\* The executor has thrown an operation's rejection out of a pull.
Failed(st) == st.errs # << >> /\ st.errs[1] >= 1

\* The consumer that drives the iterable by hand.
Manual == phase \in {"run", "finished"} /\ terminal = "iterable"

\* C23: once a pull on an executor has failed with an operation's
\* rejection the executor is finished: it stays completed, every later pull
\* is answered with exhaustion, the source is not pulled again, no further
\* operation is started, and nothing more is yielded, so the operations
\* left in the pool, settled or not, never reach the consumer; one error
\* only is ever delivered.
C23_FinishedAfterRejection ==
    [][\A k \in 1..Len(chain) :
          (chain[k].kind \in ExecKinds /\ Failed(chain[k])
              /\ Len(chain') = Len(chain)) =>
             /\ chain[k].pc = "done"
             /\ chain'[k].pc = "done"
             /\ chain'[k].outs = chain[k].outs
             /\ chain'[k].reqs = chain[k].reqs
             /\ chain'[k].ins = chain[k].ins
             /\ chain'[k].calls = chain[k].calls
             /\ chain'[k].errs = chain[k].errs
             /\ srcCalls' = srcCalls
             /\ srcPos' = srcPos
             /\ taken' = taken
             /\ Len(failure') <= 1
             /\ (ctl.at = k /\ ctl.ev = "next" /\ ctl' # ctl) =>
                   ctl' = End(k)]_vars

\* C23 witness: concurrentMap(2) driven by hand over two elements, the
\* first operation has rejected out of a pull, the second was left in the
\* pool and has fulfilled since, a later pull has reported exhaustion, and
\* nothing was ever yielded.
C23_Witness ==
    /\ Manual
    /\ phase = "finished"
    /\ Len(chain) = 1
    /\ chain[1].kind = "concurrentMap"
    /\ chain[1].arg = 2
    /\ chain[1].errs = << 1 >>
    /\ failure = << 1 >>
    /\ 2 \in PoolOps(chain[1].pool)
    /\ 2 \in chain[1].ful
    /\ chain[1].outs = << >>
    /\ taken = << >>
    /\ srcLen = 3
    /\ srcPos = 2
----------------------------------------------------------------------------
\* C24: in both executor modes with N >= 1 the free-slot registry is not
\* empty whenever an element is about to be submitted, so slots.pop() does
\* not return undefined and no operation is stored under an undefined key;
\* the registry never holds a slot id twice, nor an id outside 0..N-1.
C24_RegistrySound ==
    \A k \in 1..Len(chain) :
        LET st == chain[k] IN
        (st.kind \in ExecKinds /\ st.arg >= 1) =>
            /\ (ctl.at = k /\ ctl.ev = "val") =>
                  /\ Len(st.slots) >= 1
                  /\ PopSlot(st.slots) # Undefined
            /\ Undefined \notin DOMAIN st.pool
            /\ DOMAIN st.pool \subseteq 0..(st.arg - 1)
            /\ Range(st.slots) \subseteq 0..(st.arg - 1)
            /\ \A i, j \in 1..Len(st.slots) :
                  st.slots[i] = st.slots[j] => i = j

\* C24 witness: concurrentMap(2) has yielded one result, which returned a
\* slot to the registry, and the third element is about to be submitted
\* into that slot.
C24_Witness ==
    /\ Len(chain) = 1
    /\ chain[1].kind = "concurrentMap"
    /\ chain[1].arg = 2
    /\ ctl = [at |-> 1, ev |-> "val", val |-> 3]
    /\ Len(chain[1].outs) = 1
    /\ Len(chain[1].slots) = 1
    /\ PopSlot(chain[1].slots) \in DOMAIN chain[1].pool
----------------------------------------------------------------------------
\* C25: batch(S), S >= 1, yields a full batch as soon as its S-th element
\* has been pulled: while the stage is suspended at the yield of its j-th
\* batch it has asked upstream for and received exactly j*S elements and the
\* source has produced no more than those; at no time has the source
\* produced more than the batches yielded and the one being filled hold.
C25_BatchNotAhead ==
    \A k \in Batches :
        LET st == chain[k]
            j == Len(st.outs)
        IN  (k = 1 /\ st.arg >= 1) =>
              /\ st.pc = "yield" =>
                    /\ Len(st.outs[j]) = st.arg
                    /\ Len(st.ins) = j * st.arg
                    /\ st.reqs = j * st.arg
                    /\ srcPos = j * st.arg
                    /\ srcCalls = j * st.arg
              /\ srcPos = Len(st.ins) + (IF ctl.at = k /\ ctl.ev = "val"
                                         THEN 1 ELSE 0)
              /\ srcPos <= (j + 1) * st.arg

\* C25 witness: batch(2) over 1, 2, 3 has just yielded [1, 2] to the
\* consumer and the source has produced two elements.
C25_Witness ==
    /\ Len(chain) = 1
    /\ chain[1].kind = "batch"
    /\ chain[1].arg = 2
    /\ chain[1].pc = "yield"
    /\ chain[1].outs = << << 1, 2 >> >>
    /\ ctl.at = 2
    /\ ctl.ev = "val"
    /\ srcLen = 3
    /\ srcPos = 2
====
